---- MODULE Spec2Model ----
(***************************************************************************)
(* HotkeyManager of windows-hotkeys (src/src/lib.rs): the identifier       *)
(* counter, the handler table, the calls into the OS hotkey registry, the  *)
(* thread message queue read by poll_event and the extra-key gate.         *)
(*                                                                         *)
(* The OS side (RegisterHotKey, UnregisterHotKey, GetMessageW,             *)
(* GetAsyncKeyState) is modelled at the interface the code uses: a set of  *)
(* bindings of the calling thread, a FIFO of posted messages and a 16-bit  *)
(* state word per virtual key.                                             *)
(***************************************************************************)
EXTENDS Integers, Sequences, FiniteSets, TLC

\* ------------------------------------------------------------------ bounds
MaxRegs == 2     \* register calls made in one run of one manager
MaxRegsTwo == 3  \* register calls made in one run of two managers, over both
MaxMsgs == 2     \* messages posted to the thread queue in one run

\* --------------------------------------------------------------- constants
MaxI32 == 2147483647
MinI32 == (-MaxI32) - 1
MOD_NOREPEAT == 16384
KeyDownWord == -32768      \* 0x8000 as i16: most significant bit only
KeyToggledWord == 1        \* 0x0001: pressed since the last query, now up
MinI16 == -32768
MaxI16 == 32767

\* ------------------------------------------------------------------ inputs
Managers1 == {1}
Managers2 == {1, 2}
Offsets == {0, MaxI32}                  \* new(), new_with_id_offset(i32::MAX)
OffsetsApart == {0, 100}                \* new_with_id_offset(0), new_with_id_offset(100)
\* (key, key_modifiers) arguments: one combination with two modifiers and one
\* without modifiers.
Hotkeys == {<<"Return", <<"Ctrl", "Alt">>>>, <<"Space", << >>>>}
ExtraVKs == {"A", "B"}
ExtraLists == {<<"A", "B">>}
Callbacks == {"f", "g"}
\* The callback passed with a combination: different callbacks for the two
\* combinations without extra keys, and the other way round with extra keys.
CallbackFor(hk, extra_keys) ==
    IF (hk[1] = "Return") = (extra_keys = << >>) THEN "f" ELSE "g"
KeyStateWords == {KeyToggledWord, KeyDownWord}
Words == MinI16..MaxI16                 \* every answer of GetAsyncKeyState (SHORT)

VARIABLES
    mgr,         \* mgr[m] = [id_offset, handlers] : the HotkeyManager structs
    os,          \* hotkey bindings of the thread: records [id, fsModifiers, vk]
    queue,       \* the thread's posted messages: records [message, wParam], and
                 \* for: the id of the binding the OS posted the message for,
                 \* seq: the position of the message among all those posted
    quit,        \* the thread's quit flag (PostQuitMessage was called)
    contended,   \* something outside the process holds hotkey combinations
    panicked,    \* the thread unwound from an arithmetic-overflow panic
    last,        \* the call that returned last, its arguments and its result (the
                 \* callback and extra keys of a register call only when it stored them;
                 \* req: the arguments it passed to RegisterHotKey)
    base,        \* base[m] : the offset m was constructed with
    regs,        \* regs[m] : the register calls of m that returned, in order: the id
                 \* each chose and whether it succeeded
    combo,       \* combo[m][id] : the (key, modifier set) entry id of m was registered with
    delivered,   \* delivered[m][id] : hotkey messages for id polled by m since id was registered
    fired,       \* fired[m][id] : invocations of the callback of entry id of m
    released,    \* released[m] : the ids of the entries of m for which an unregister
                 \* call of m returned Ok
    posted,      \* number of messages posted so far
    loop         \* the manager whose event_loop the thread is in, 0 when in none

vars == <<mgr, os, queue, quit, contended, panicked, last, base, regs, combo, delivered,
          fired, released, posted, loop>>

\* ------------------------------------------------------- integer conversions
\* (AsU32Zero: the 16-bit word zero-extended, as `x as u16 as u32` would.)
AsU32Zero(x) == [b31 |-> 0, low |-> x % 65536]

\* x as u32 (x an i16 or an i32): the low 32 bits of the sign-extended value,
\* kept as bit 31 and the low 31 bits.
AsU32(x) ==
    IF x < 0 THEN [b31 |-> 1, low |-> (x + MaxI32) + 1]
             ELSE [b31 |-> 0, low |-> x]

\* u >> 31
ShiftRight31(u) == u.b31

\* The wParam of the WM_HOTKEY message the OS posts for binding id (its low 32 bits).
ToWParam(id) == AsU32(id)

\* (AsI32Low: bit 31 dropped.)
AsI32Low(w) == w.low

\* msg.wParam as i32
AsI32(w) ==
    IF w.b31 = 1 THEN (w.low - MaxI32) - 1 ELSE w.low

RECURSIVE BitOr(_, _)
BitOr(a, b) ==
    IF a = 0 THEN b
    ELSE IF b = 0 THEN a
    ELSE (IF a % 2 = 1 \/ b % 2 = 1 THEN 1 ELSE 0) + 2 * BitOr(a \div 2, b \div 2)

\* ------------------------------------------------------------ key vocabulary
to_vk_code(vk) ==
    CASE vk = "Return" -> 13
      [] vk = "Space"  -> 32
      [] vk = "A"      -> 65
      [] vk = "B"      -> 66

to_mod_code(mk) ==
    CASE mk = "Alt"   -> 1
      [] mk = "Ctrl"  -> 2
      [] mk = "Shift" -> 4
      [] mk = "Win"   -> 8

RECURSIVE combine(_)
combine(keys) ==
    IF keys = << >> THEN 0
    ELSE BitOr(combine(SubSeq(keys, 1, Len(keys) - 1)), to_mod_code(keys[Len(keys)]))

\* ------------------------------------------------------------------ helpers
NoHandlers == [i \in {} |-> 0]

Insert(h, k, v) == [i \in (DOMAIN h) \cup {k} |-> IF i = k THEN v ELSE h[i]]

Remove(h, k) == [i \in (DOMAIN h) \ {k} |-> h[i]]

Range(s) == {s[i] : i \in DOMAIN s}

\* The sequences that list every element of S once.
RECURSIVE Perms(_)
Perms(S) ==
    IF S = {} THEN {<< >>}
    ELSE UNION {{<<x>> \o p : p \in Perms(S \ {x})} : x \in S}

NoMsg == [message |-> "none", wParam |-> ToWParam(0), for |-> 0, seq |-> 0]

NoLast ==
    [op |-> "none", m |-> 0, id |-> 0, key |-> "none", mods |-> << >>, extra |-> << >>,
     cb |-> "none", result |-> "none", pre |-> NoHandlers, preOs |-> {},
     value |-> "none", keys |-> << >>, order |-> << >>, done |-> 0, msg |-> NoMsg,
     invoked |-> << >>, req |-> << >>]

\* The register calls a run may make.
RegBound == IF DOMAIN mgr = Managers1 THEN MaxRegs ELSE MaxRegsTwo

\* The bookkeeping of the entries of a table after a register call: that of the
\* entries it had, and v for the entry the call stored.
Track(old, handlers1, id, v) ==
    [i \in DOMAIN handlers1 |-> IF i \in DOMAIN old /\ i # id THEN old[i] ELSE v]

RECURSIVE TotalRegs(_)
TotalRegs(S) ==
    IF S = {} THEN 0
    ELSE LET k == CHOOSE x \in S : TRUE IN Len(regs[k]) + TotalRegs(S \ {k})

\* ------------------------------------------------------------ the OS registry
\* RegisterHotKey(0 as HWND, id, fsModifiers, vk): nonzero iff the binding is made.
\* It is refused when the id is in use, when the combination is bound already,
\* or (grant = FALSE) when something outside the process holds the combination.
RegisterHotKey(bindings, id, fsModifiers, vk, grant) ==
    IF /\ grant
       /\ \A b \in bindings : b.id # id
       /\ \A b \in bindings : ~(b.vk = vk /\ b.fsModifiers = fsModifiers)
    THEN 1 ELSE 0

OsAfterRegister(bindings, id, fsModifiers, vk, reg_ok) ==
    IF reg_ok = 0 THEN bindings
    ELSE bindings \cup {[id |-> id, fsModifiers |-> fsModifiers, vk |-> vk]}

\* UnregisterHotKey(0 as HWND, id): nonzero iff the thread had a binding for id.
UnregisterHotKey(bindings, id) ==
    IF \E b \in bindings : b.id = id THEN 1 ELSE 0

OsAfterUnregister(bindings, id) == {b \in bindings : b.id # id}

BoundIds(bindings) == {b.id : b \in bindings}

\* ------------------------------------------------------------------ register
\* (AddOneStuck: the increment left out.)
\* self.id_offset += 1 : past i32::MAX the build either panics (overflow checks)
\* or wraps (no overflow checks).
AddOneStuck(id_offset) == {[panic |-> FALSE, value |-> id_offset]}

AddOne(id_offset) ==
    IF id_offset = MaxI32
    THEN {[panic |-> TRUE, value |-> id_offset], [panic |-> FALSE, value |-> MinI32]}
    ELSE {[panic |-> FALSE, value |-> id_offset + 1]}

\* (HandlersAfterRegisterAlways: the entry stored whatever RegisterHotKey answered.)
HandlersAfterRegisterAlways(handlers, register_id, reg_ok, callback, extra_keys) ==
    Insert(handlers, register_id, [callback |-> callback, extra_keys |-> extra_keys])

\* (HandlersAfterRegisterNever: the insert left out.)
HandlersAfterRegisterNever(handlers, register_id, reg_ok, callback, extra_keys) == handlers

HandlersAfterRegister(handlers, register_id, reg_ok, callback, extra_keys) ==
    IF reg_ok = 0 THEN handlers
    ELSE Insert(handlers, register_id, [callback |-> callback, extra_keys |-> extra_keys])

\* (RegisterResultOk: reg_ok ignored.)
RegisterResultOk(reg_ok) == "Ok"

RegisterResult(reg_ok) == IF reg_ok = 0 THEN "RegistrationFailed" ELSE "Ok"

\* (FsModifiersPlain: the caller's flags alone.)
FsModifiersPlain(key_modifiers) == combine(key_modifiers)

\* ModKey::combine(key_modifiers) | winuser::MOD_NOREPEAT as u32
FsModifiers(key_modifiers) == BitOr(combine(key_modifiers), MOD_NOREPEAT)

RegisterCall(op, m, key, key_modifiers, extra_keys, callback, grant, inc) ==
    LET register_id == mgr[m].id_offset
        fsModifiers == FsModifiers(key_modifiers)
        vk          == to_vk_code(key)
        reg_ok      == RegisterHotKey(os, register_id, fsModifiers, vk, grant)
        handlers1   == HandlersAfterRegister(mgr[m].handlers, register_id, reg_ok,
                                             callback, extra_keys)
    IN  IF inc.panic
        THEN /\ panicked' = TRUE
             /\ UNCHANGED <<mgr, os, queue, quit, contended, last, base, regs, combo, delivered,
                          fired, released, posted, loop>>
        ELSE /\ mgr' = [mgr EXCEPT ![m] = [id_offset |-> inc.value, handlers |-> handlers1]]
             /\ os' = OsAfterRegister(os, register_id, fsModifiers, vk, reg_ok)
             /\ regs' = [regs EXCEPT ![m] = Append(@, [id |-> register_id, ok |-> reg_ok # 0])]
             /\ combo' = [combo EXCEPT ![m] = Track(@, handlers1, register_id,
                                  [key |-> key, mods |-> Range(key_modifiers)])]
             /\ delivered' = [delivered EXCEPT ![m] = Track(@, handlers1, register_id, 0)]
             /\ fired' = [fired EXCEPT ![m] = Track(@, handlers1, register_id, 0)]
             /\ last' = [NoLast EXCEPT !.op = op, !.m = m, !.id = register_id, !.key = key,
                                       !.mods = key_modifiers,
                                       !.extra = IF reg_ok = 0 THEN << >> ELSE extra_keys,
                                       !.cb = IF reg_ok = 0 THEN "none" ELSE callback,
                                       !.result = RegisterResult(reg_ok),
                                       !.pre = mgr[m].handlers, !.preOs = os,
                                       !.req = <<register_id, fsModifiers, vk>>]
             /\ UNCHANGED <<queue, quit, contended, panicked, base, released, posted, loop>>

\* What the rest of the system lets RegisterHotKey answer for this request: it
\* matters only when the registry of the thread itself would accept it, and it
\* is a refusal only when something else holds combinations.
Grants(m, hk) ==
    IF RegisterHotKey(os, mgr[m].id_offset, FsModifiers(hk[2]), to_vk_code(hk[1]), TRUE) = 0
    THEN {FALSE}
    ELSE IF contended THEN BOOLEAN ELSE {TRUE}

register_extrakeys(m) ==
    /\ ~panicked
    /\ TotalRegs(DOMAIN mgr) < RegBound
    /\ \E hk \in Hotkeys, extra_keys \in ExtraLists, inc \in AddOne(mgr[m].id_offset) :
       \E grant \in Grants(m, hk) :
          RegisterCall("register_extrakeys", m, hk[1], hk[2], extra_keys,
                       CallbackFor(hk, extra_keys), grant, inc)

register(m) ==
    /\ ~panicked
    /\ TotalRegs(DOMAIN mgr) < RegBound
    /\ \E hk \in Hotkeys, inc \in AddOne(mgr[m].id_offset) :
       \E grant \in Grants(m, hk) :
          RegisterCall("register", m, hk[1], hk[2], << >>, CallbackFor(hk, << >>),
                       grant, inc)

\* ---------------------------------------------------------------- unregister
\* (HandlersAfterUnregisterKeep: the entry never removed.)
HandlersAfterUnregisterKeep(handlers, id, ok) == handlers

\* (HandlersAfterUnregisterClear: the whole table emptied on success.)
HandlersAfterUnregisterClear(handlers, id, ok) ==
    IF ok = 0 THEN handlers ELSE NoHandlers

HandlersAfterUnregister(handlers, id, ok) ==
    IF ok = 0 THEN handlers ELSE Remove(handlers, id)

\* (UnregisterResultOk: the answer of UnregisterHotKey ignored.)
UnregisterResultOk(ok) == "Ok"

UnregisterResult(ok) == IF ok = 0 THEN "UnregistrationFailed" ELSE "Ok"

\* One call of self.unregister(id) on a table and a registry.
UnregisterStep(handlers, bindings, id) ==
    LET ok == UnregisterHotKey(bindings, id)
    IN  [handlers |-> HandlersAfterUnregister(handlers, id, ok),
         os       |-> IF ok = 0 THEN bindings ELSE OsAfterUnregister(bindings, id),
         result   |-> UnregisterResult(ok)]

\* The HotkeyId values a caller can hold or name: those allocated so far by any
\* manager, and the next one each manager would allocate (never issued).
IdArgs ==
    UNION {{r.id : r \in Range(regs[k])} : k \in DOMAIN mgr}
        \cup {mgr[k].id_offset : k \in DOMAIN mgr}

\* The bookkeeping of entries follows the table: it is dropped with the entry.
Forget(m, handlers1) ==
    /\ combo' = [combo EXCEPT ![m] = [i \in DOMAIN handlers1 |-> @[i]]]
    /\ delivered' = [delivered EXCEPT ![m] = [i \in DOMAIN handlers1 |-> @[i]]]
    /\ fired' = [fired EXCEPT ![m] = [i \in DOMAIN handlers1 |-> @[i]]]

unregister(m) ==
    /\ ~panicked
    /\ \E id \in IdArgs :
          LET st == UnregisterStep(mgr[m].handlers, os, id)
          IN  /\ mgr' = [mgr EXCEPT ![m].handlers = st.handlers]
              /\ os' = st.os
              /\ last' = [NoLast EXCEPT !.op = "unregister", !.m = m, !.id = id,
                                        !.result = st.result, !.pre = mgr[m].handlers,
                                        !.preOs = os]
              /\ Forget(m, st.handlers)
              /\ released' = IF st.result = "Ok" /\ id \in DOMAIN mgr[m].handlers
                             THEN [released EXCEPT ![m] = @ \cup {id}] ELSE released
    /\ UNCHANGED <<queue, quit, contended, panicked, base, regs, posted, loop>>

\* (UnregisterWalkOn: the walk goes on after a failed unregister and reports the
\* first failure at its end.)
RECURSIVE UnregisterWalkOn(_, _, _, _)
UnregisterWalkOn(handlers, bindings, ids, i) ==
    IF i > Len(ids)
    THEN [handlers |-> handlers, os |-> bindings, result |-> "Ok", done |-> Len(ids)]
    ELSE LET st   == UnregisterStep(handlers, bindings, ids[i])
             tail == UnregisterWalkOn(st.handlers, st.os, ids, i + 1)
         IN  IF st.result # "Ok"
             THEN [handlers |-> tail.handlers, os |-> tail.os, result |-> st.result,
                   done |-> i - 1]
             ELSE tail

\* for id in ids { self.unregister(id)?; } from position i of the snapshot on.
RECURSIVE UnregisterWalk(_, _, _, _)
UnregisterWalk(handlers, bindings, ids, i) ==
    IF i > Len(ids)
    THEN [handlers |-> handlers, os |-> bindings, result |-> "Ok", done |-> Len(ids)]
    ELSE LET st == UnregisterStep(handlers, bindings, ids[i])
         IN  IF st.result # "Ok"
             THEN [handlers |-> st.handlers, os |-> st.os, result |-> st.result,
                   done |-> i - 1]
             ELSE UnregisterWalk(st.handlers, st.os, ids, i + 1)

\* self.handlers.keys().copied().collect(): the keys in the map's iteration order,
\* which is any order.
KeysSnapshots(handlers) == Perms(DOMAIN handlers)

unregister_all(m) ==
    /\ ~panicked
    /\ \E ids \in KeysSnapshots(mgr[m].handlers) :
          LET w == UnregisterWalk(mgr[m].handlers, os, ids, 1)
          IN  /\ mgr' = [mgr EXCEPT ![m].handlers = w.handlers]
              /\ os' = w.os
              /\ last' = [NoLast EXCEPT !.op = "unregister_all", !.m = m,
                                        !.result = w.result, !.pre = mgr[m].handlers,
                                        !.preOs = os, !.order = ids, !.done = w.done]
              /\ Forget(m, w.handlers)
              /\ released' = [released EXCEPT ![m] = @ \cup {ids[i] : i \in 1..w.done}]
    /\ UNCHANGED <<queue, quit, contended, panicked, base, regs, posted, loop>>

\* ---------------------------------------------------------------- poll_event
\* GetAsyncKeyState(vk.to_vk_code()) as u32 >> 31 == 1
get_global_keystate(vk, ks) ==
    ShiftRight31(AsU32(ks[vk])) = 1

\* (ExtraKeysAnyPressed: one pressed extra key is enough.)
ExtraKeysAnyPressed(extra_keys, ks) ==
    extra_keys = << >> \/ \E i \in 1..Len(extra_keys) : get_global_keystate(extra_keys[i], ks)

\* extra_keys.iter().find(|&vk| !get_global_keystate(*vk)) is None
ExtraKeysPressed(extra_keys, ks) ==
    \A i \in 1..Len(extra_keys) : get_global_keystate(extra_keys[i], ks)

\* GetMessageW(.., 0 as HWND, WM_HOTKEY, WM_HOTKEY) blocks until the queue holds
\* a message in the filter range or the quit flag is set.
InFilter(msg) == msg.message = "WM_HOTKEY"

CanGetMessage(q, qf) == qf \/ \E i \in 1..Len(q) : InFilter(q[i])

FirstInFilter(q) ==
    CHOOSE i \in 1..Len(q) :
        /\ InFilter(q[i])
        /\ \A j \in 1..(i - 1) : ~InFilter(q[j])

\* GetMessageW: the first posted message in the filter range, removed from the
\* queue, with a nonzero answer; when there is none and the quit flag is set,
\* WM_QUIT with the answer 0, and the flag is cleared.
GetMessageW(q, qf) ==
    IF \E i \in 1..Len(q) : InFilter(q[i])
    THEN LET i == FirstInFilter(q)
         IN  [ok   |-> 1,
              msg  |-> q[i],
              rest |-> SubSeq(q, 1, i - 1) \o SubSeq(q, i + 1, Len(q)),
              quit |-> qf]
    ELSE [ok |-> 0, msg |-> [message |-> "WM_QUIT", wParam |-> ToWParam(0), for |-> 0,
                             seq |-> 0],
          rest |-> q, quit |-> FALSE]

\* The body of poll_event after GetMessageW returned: the result and the
\* callbacks it ran.
Dispatch(handlers, ok, msg, ks) ==
    LET hk_id == AsI32(msg.wParam)
    IN  IF /\ ok # 0
           /\ msg.message = "WM_HOTKEY"
           /\ hk_id \in DOMAIN handlers
           /\ ExtraKeysPressed(handlers[hk_id].extra_keys, ks)
        THEN [result |-> "Some", value |-> handlers[hk_id].callback,
              invoked |-> <<[id |-> hk_id, cb |-> handlers[hk_id].callback]>>]
        ELSE [result |-> "None", value |-> "none", invoked |-> << >>]

RECURSIVE CountInvoked(_, _)
CountInvoked(invoked, id) ==
    IF invoked = << >> THEN 0
    ELSE (IF Head(invoked).id = id THEN 1 ELSE 0) + CountInvoked(Tail(invoked), id)

\* The keys poll_event may ask GetAsyncKeyState about for this message.
QueriedKeys(handlers, ok, msg) ==
    IF ok # 0 /\ msg.message = "WM_HOTKEY" /\ AsI32(msg.wParam) \in DOMAIN handlers
    THEN Range(handlers[AsI32(msg.wParam)].extra_keys)
    ELSE {}

\* (HandlersAfterPollOneShot: an entry dropped once its callback has run.)
HandlersAfterPollOneShot(handlers, invoked) ==
    [i \in (DOMAIN handlers) \ {invoked[j].id : j \in 1..Len(invoked)} |-> handlers[i]]

\* self.handlers.get(&hk_id) borrows the table to read it: poll_event writes to
\* no field of self.
HandlersAfterPoll(handlers, invoked) == handlers

\* ks[vk] is the word GetAsyncKeyState answers when poll_event asks for vk: the
\* state of the key at that moment, whatever it was when the message was posted.
\* (The call alone: whether the thread is in event_loop is left to the caller.)
poll_event(m) ==
    /\ ~panicked
    /\ CanGetMessage(queue, quit)
    /\ LET got   == GetMessageW(queue, quit)
           live  == got.msg.message = "WM_HOTKEY" /\ got.msg.for \in DOMAIN mgr[m].handlers
       IN  \E ks \in [QueriedKeys(mgr[m].handlers, got.ok, got.msg) -> KeyStateWords] :
           LET d == Dispatch(mgr[m].handlers, got.ok, got.msg, ks)
           IN  /\ queue' = got.rest
               /\ quit' = got.quit
               /\ mgr' = [mgr EXCEPT ![m].handlers = HandlersAfterPoll(@, d.invoked)]
               /\ delivered' = IF live THEN [delivered EXCEPT ![m][got.msg.for] = @ + 1]
                               ELSE delivered
               /\ fired' = [fired EXCEPT ![m] =
                               [id \in DOMAIN @ |-> @[id] + CountInvoked(d.invoked, id)]]
               /\ last' = [NoLast EXCEPT !.op = "poll_event", !.m = m,
                                         !.result = d.result, !.value = d.value,
                                         !.msg = got.msg, !.keys = ks,
                                         !.invoked = d.invoked, !.pre = mgr[m].handlers,
                                         !.preOs = os]
    /\ UNCHANGED <<os, contended, panicked, base, regs, combo, released, posted>>

\* A call of get_global_keystate(vk) from outside the manager: the word the OS
\* will answer is last.keys[vk].
get_global_keystate_call ==
    /\ last.op = "none"
    /\ \E vk \in DOMAIN last.keys :
          last' = [last EXCEPT !.op = "get_global_keystate", !.key = vk,
                               !.value = IF get_global_keystate(vk, last.keys)
                                         THEN "true" ELSE "false"]
    /\ UNCHANGED <<mgr, os, queue, quit, contended, panicked, base, regs, combo, delivered,
                   fired, released, posted, loop>>

\* ---------------------------------------------------------------- event_loop
\* (LoopUntilNone: the loop left when poll_event returns None.)
LoopUntilNone(m, result) == IF result = "None" THEN 0 ELSE m

\* loop { self.poll_event(); } : the result is dropped and the body has no break.
LoopAfterPoll(m, result) == m

\* The thread calls event_loop of m.
event_loop(m) ==
    /\ ~panicked
    /\ loop = 0
    /\ loop' = m
    /\ last' = NoLast
    /\ UNCHANGED <<mgr, os, queue, quit, contended, panicked, base, regs, combo, delivered,
                   fired, released, posted>>

\* One turn of the loop: self.poll_event();
event_loop_turn(m) ==
    /\ loop = m
    /\ poll_event(m)
    /\ loop' = LoopAfterPoll(m, last'.result)

\* ------------------------------------------------------------ the environment
\* The user presses a bound combination: the OS posts WM_HOTKEY with the id.
HotkeyPressed ==
    /\ posted < MaxMsgs
    /\ \E b \in os :
          queue' = Append(queue, [message |-> "WM_HOTKEY", wParam |-> ToWParam(b.id),
                                  for |-> b.id, seq |-> posted + 1])
    /\ posted' = posted + 1
    /\ last' = NoLast
    /\ UNCHANGED <<mgr, os, quit, contended, panicked, base, regs, combo, delivered, fired, released, loop>>

\* PostQuitMessage: the quit flag of the thread is set.
QuitPosted ==
    /\ posted < MaxMsgs
    /\ ~quit
    /\ quit' = TRUE
    /\ posted' = posted + 1
    /\ last' = NoLast
    /\ UNCHANGED <<mgr, os, queue, contended, panicked, base, regs, combo, delivered, fired, released, loop>>

\* ------------------------------------------------------------ specifications
\* HotkeyManager::new() / new_with_id_offset(id_offset)
NewManager(id_offset) == [id_offset |-> id_offset, handlers |-> NoHandlers]

InitWith(M, O, c) ==
    /\ base \in [M -> O]
    /\ contended = c
    /\ mgr = [m \in M |-> NewManager(base[m])]
    /\ os = {}
    /\ queue = << >>
    /\ quit = FALSE
    /\ panicked = FALSE
    /\ last = NoLast
    /\ regs = [m \in M |-> << >>]
    /\ combo = [m \in M |-> NoHandlers]
    /\ released = [m \in M |-> {}]
    /\ delivered = [m \in M |-> NoHandlers]
    /\ fired = [m \in M |-> NoHandlers]
    /\ posted = 0
    /\ loop = 0

Init == InitWith(Managers1, Offsets, TRUE)

\* Both managers are made with new(); nothing else holds hotkey combinations.
InitTwo == InitWith(Managers2, {0}, FALSE)

Next ==
    \/ \E m \in DOMAIN mgr : register_extrakeys(m)
    \/ \E m \in DOMAIN mgr : register(m)
    \/ \E m \in DOMAIN mgr : unregister(m)
    \/ \E m \in DOMAIN mgr : unregister_all(m)
    \/ \E m \in DOMAIN mgr : poll_event(m) /\ UNCHANGED loop
    \/ HotkeyPressed
    \/ QuitPosted

\* One manager on the thread.
Spec == Init /\ [][Next]_vars

\* The registration calls alone.
NextCalls ==
    \/ \E m \in DOMAIN mgr : register_extrakeys(m)
    \/ \E m \in DOMAIN mgr : register(m)
    \/ \E m \in DOMAIN mgr : unregister(m)
    \/ \E m \in DOMAIN mgr : unregister_all(m)

\* Two managers made with new() on the same thread, sharing the OS registry:
\* their registration calls in any interleaving.
SpecTwo == InitTwo /\ [][NextCalls]_vars

\* Two managers made with new_with_id_offset over ranges that do not meet (the
\* first from 0, the second from 100), sharing the OS registry.
InitApart == InitWith(Managers2, OffsetsApart, FALSE) /\ base[1] < base[2]

SpecApart == InitApart /\ [][NextCalls]_vars

\* get_global_keystate alone, for every word the OS can answer for a key.
InitKeyState ==
    /\ base = [m \in Managers1 |-> 0]
    /\ contended = TRUE
    /\ mgr = [m \in Managers1 |-> NewManager(base[m])]
    /\ os = {}
    /\ queue = << >>
    /\ quit = FALSE
    /\ panicked = FALSE
    /\ \E vk \in ExtraVKs, w \in Words : last = [NoLast EXCEPT !.keys = (vk :> w)]
    /\ regs = [m \in Managers1 |-> << >>]
    /\ combo = [m \in Managers1 |-> NoHandlers]
    /\ released = [m \in Managers1 |-> {}]
    /\ delivered = [m \in Managers1 |-> NoHandlers]
    /\ fired = [m \in Managers1 |-> NoHandlers]
    /\ posted = 0
    /\ loop = 0

NextKeyState == get_global_keystate_call

SpecKeyState == InitKeyState /\ [][NextKeyState]_vars

\* The thread sets its manager up and then stays in event_loop: &mut self is
\* borrowed by the loop, so no other method of the manager is called after.
NextLoop ==
    \/ \E m \in DOMAIN mgr : loop = 0 /\ register_extrakeys(m)
    \/ \E m \in DOMAIN mgr : loop = 0 /\ register(m)
    \/ \E m \in DOMAIN mgr : loop = 0 /\ unregister(m)
    \/ \E m \in DOMAIN mgr : event_loop(m)
    \/ \E m \in DOMAIN mgr : event_loop_turn(m)
    \/ HotkeyPressed
    \/ QuitPosted

\* The thread in event_loop is scheduled: a call of GetMessageW that can return
\* does return.
LoopFairness == WF_vars(\E m \in DOMAIN mgr : event_loop_turn(m))

\* The manager of the loop is made with new(); nothing else holds combinations.
InitLoop == InitWith(Managers1, {0}, FALSE)

SpecLoop == InitLoop /\ [][NextLoop]_vars /\ LoopFairness

\* ------------------------------------------------------------------ properties
IsRegister == last.op \in {"register", "register_extrakeys"}

\* The most significant bit of the i16 word is set.
Pressed(word) == word < 0

\* What the last poll_event was told about vk.
ToldPressed(vk) == vk \in DOMAIN last.keys /\ Pressed(last.keys[vk])

ToldNotPressed(vk) == vk \in DOMAIN last.keys /\ ~Pressed(last.keys[vk])

Live(m, bindings) == (DOMAIN mgr[m].handlers) \cap BoundIds(bindings)

\* The last call was poll_event and it received a hotkey message posted for a
\* binding whose id was in the table of the polling manager.
PolledRegistered ==
    /\ last.op = "poll_event"
    /\ last.msg.message = "WM_HOTKEY"
    /\ last.msg.for \in DOMAIN last.pre

\* C1: the identifiers returned by the successful register calls of a manager are
\* pairwise different, whether or not the earlier registration is still in the
\* table, and the table holds only identifiers that were returned.
C1_IdsNeverReused ==
    \A m \in DOMAIN mgr :
        /\ \A i, j \in 1..Len(regs[m]) :
               (i # j /\ regs[m][i].ok /\ regs[m][j].ok) => regs[m][i].id # regs[m][j].id
        /\ DOMAIN mgr[m].handlers \subseteq {r.id : r \in {x \in Range(regs[m]) : x.ok}}

\* Two successful registrations, the first of them unregistered before the second.
C1_Witness ==
    /\ IsRegister /\ last.result = "Ok"
    /\ \E i \in 1..Len(regs[last.m]) :
          /\ regs[last.m][i].ok
          /\ regs[last.m][i].id # last.id
          /\ regs[last.m][i].id \in released[last.m]

\* C2: every identifier in the handler table of the manager has an OS binding.
C2_TableImpliesBinding ==
    \A m \in DOMAIN mgr : DOMAIN mgr[m].handlers \subseteq BoundIds(os)

\* A register call was refused while the table held an entry.
C2_Witness ==
    /\ IsRegister /\ last.result = "RegistrationFailed"
    /\ DOMAIN mgr[last.m].handlers # {}

\* C3: a register call for a (key, modifiers) combination that a live registration
\* of the same manager holds returns RegistrationFailed and leaves the table as it
\* was.
C3_DuplicateComboFails ==
    (/\ IsRegister
     /\ \E id \in (DOMAIN last.pre) \cap BoundIds(last.preOs) :
           /\ combo[last.m][id].key = last.key
           /\ combo[last.m][id].mods = Range(last.mods))
    => (last.result = "RegistrationFailed" /\ mgr[last.m].handlers = last.pre)

\* A second register of Ctrl+Alt+Return while the first is live.
C3_Witness ==
    /\ IsRegister /\ last.result = "RegistrationFailed"
    /\ last.key = "Return"
    /\ \E id \in (DOMAIN last.pre) \cap BoundIds(last.preOs) :
          /\ combo[last.m][id].key = last.key
          /\ combo[last.m][id].mods = Range(last.mods)

C5_UnregisterAllSnapshot ==
    last.op = "unregister_all" =>
        LET ids    == last.order
            after  == mgr[last.m].handlers
            bindingsOf(bs, id) == {b \in bs : b.id = id}
        IN  /\ Range(ids) = DOMAIN last.pre
            /\ Len(ids) = Cardinality(DOMAIN last.pre)
            /\ last.done \in 0..Len(ids)
            /\ \A i \in 1..last.done :
                   /\ ids[i] \in BoundIds(last.preOs)
                   /\ ids[i] \notin DOMAIN after
                   /\ ids[i] \notin BoundIds(os)
            /\ \A i \in (last.done + 1)..Len(ids) :
                   /\ ids[i] \in DOMAIN after
                   /\ after[ids[i]] = last.pre[ids[i]]
                   /\ bindingsOf(os, ids[i]) = bindingsOf(last.preOs, ids[i])
            /\ (last.result = "Ok") = (\A i \in 1..Len(ids) : ids[i] \in BoundIds(last.preOs))
            /\ last.result = "Ok" => (last.done = Len(ids) /\ after = NoHandlers)
            /\ last.result # "Ok" =>
                   /\ last.result = "UnregistrationFailed"
                   /\ last.done < Len(ids)
                   /\ ids[last.done + 1] \notin BoundIds(last.preOs)

\* A walk over two identifiers that removed the first and was refused the second.
C5_Witness ==
    /\ last.op = "unregister_all"
    /\ last.result = "UnregistrationFailed"
    /\ Len(last.order) = 2 /\ last.done = 1

\* C6: a hotkey message for a registered identifier, with an extra key of the
\* registration not pressed when poll_event asks: no result, no callback run.
C6_GateBlocks ==
    (/\ PolledRegistered
     /\ \E vk \in Range(last.pre[last.msg.for].extra_keys) : ToldNotPressed(vk))
    => (last.result = "None" /\ last.invoked = << >>)

\* extra_keys = [A, B], A pressed and B not.
C6_Witness ==
    /\ PolledRegistered
    /\ last.pre[last.msg.for].extra_keys = <<"A", "B">>
    /\ ToldPressed("A") /\ ToldNotPressed("B")
    /\ last.result = "None"

\* C7: a hotkey message for a registered identifier whose extra keys are all
\* pressed runs that registration's callback once, no other, and returns its
\* result; and a registration without extra keys has run its callback as often
\* as hotkey messages for it were polled.
C7_DispatchOnce ==
    /\ (/\ PolledRegistered
        /\ \A vk \in Range(last.pre[last.msg.for].extra_keys) : ToldPressed(vk))
       => /\ last.result = "Some"
          /\ last.value = last.pre[last.msg.for].callback
          /\ last.invoked = <<[id |-> last.msg.for, cb |-> last.pre[last.msg.for].callback]>>
    /\ \A m \in DOMAIN mgr : \A id \in DOMAIN mgr[m].handlers :
          mgr[m].handlers[id].extra_keys = << >> => fired[m][id] = delivered[m][id]

\* Two messages polled for a registration without extra keys, while a second
\* registration with the other callback is in the table.
C7_Witness ==
    /\ PolledRegistered /\ last.result = "Some"
    /\ last.pre[last.msg.for].extra_keys = << >>
    /\ fired[last.m][last.msg.for] = 2
    /\ \E id \in DOMAIN last.pre : last.pre[id].callback # last.value

\* C8: a hotkey message for an identifier that is not in the table gives no
\* result and runs no callback, and poll_event never runs the callback of an
\* identifier whose unregister call returned Ok.
C8_UnknownIdIgnored ==
    last.op = "poll_event" =>
        /\ (last.msg.message = "WM_HOTKEY" /\ last.msg.for \notin DOMAIN last.pre)
              => (last.result = "None" /\ last.invoked = << >>)
        /\ \A i \in 1..Len(last.invoked) : last.invoked[i].id \notin released[last.m]

\* A message that was queued for a binding and polled after its unregister,
\* while another entry is in the table.
C8_Witness ==
    /\ last.op = "poll_event"
    /\ last.msg.message = "WM_HOTKEY"
    /\ last.msg.for \in released[last.m]
    /\ last.pre # NoHandlers

\* C9 (as claimed): the identifier chosen by the k-th register call of a manager is
\* its construction offset plus k - 1, and the counter is the offset plus the
\* number of register calls.
C9_IdIsOffsetPlusCalls ==
    \A m \in DOMAIN mgr :
        /\ \A k \in 1..Len(regs[m]) :
               /\ regs[m][k].id >= base[m]
               /\ regs[m][k].id - base[m] = k - 1
        /\ mgr[m].id_offset >= base[m]
        /\ mgr[m].id_offset - base[m] = Len(regs[m])

Queued(n) == \E i \in 1..Len(queue) : queue[i].seq = n

\* A poll_event call made by event_loop has just returned.
LoopPolled == loop # 0 /\ last.op = "poll_event" /\ last.m = loop

\* C11: once the thread is in event_loop it stays there whatever poll_event
\* returns; and with the thread scheduled, every hotkey message in the queue while
\* event_loop runs is taken by a poll_event call of the loop, and a pending quit
\* is returned to one and the loop goes on. (A message is posted once and only
\* poll_event takes it from the queue: it is taken when, the loop running, it is
\* again and again not in the queue.)
C11_LoopForever ==
    /\ [][loop # 0 => loop' = loop]_vars
    /\ \A n \in 1..MaxMsgs : []<>(loop = 0 \/ ~Queued(n))
    /\ []<>(loop = 0 \/ ~quit)

\* A turn of the loop has taken the second message posted and nothing is left
\* pending: the loop went on after the turn that consumed the first.
C11_Witness ==
    /\ LoopPolled
    /\ last.msg.message = "WM_HOTKEY" /\ last.msg.seq = 2
    /\ queue = << >> /\ ~quit

\* C12 (as claimed): after unregister(id) for an id in the table, a failed call
\* has returned UnregistrationFailed with the entry and the OS binding of id both
\* present, a successful one has returned Ok with both absent, and the entry and
\* the binding are never one present and the other absent.
C12_UnregisterLockStep ==
    (last.op = "unregister" /\ last.id \in DOMAIN last.pre) =>
        LET inTable == last.id \in DOMAIN mgr[last.m].handlers
            bound   == last.id \in BoundIds(os)
        IN  /\ last.result \in {"Ok", "UnregistrationFailed"}
            /\ last.result = "UnregistrationFailed" => (inTable /\ bound)
            /\ last.result = "Ok" => (~inTable /\ ~bound)
            /\ inTable = bound

\* The identifiers of the range of manager k that k has allocated.
Issued(k) == {r.id : r \in Range(regs[k])}

BindingsOf(k, bindings) == {b \in bindings : b.id \in Issued(k)}

\* C14 (as claimed): with two managers over ranges that do not meet, a register,
\* unregister or unregister_all call on one manager, whatever HotkeyId it is given,
\* leaves the table of the other manager and the OS bindings of the other
\* manager's identifiers as they were, and every table entry of either manager
\* has its OS binding in every state.
C14_ManagersApart ==
    /\ [][\A m \in DOMAIN mgr : \A k \in (DOMAIN mgr) \ {m} :
            (last'.m = m /\ last'.op \in {"register", "register_extrakeys", "unregister",
                                         "unregister_all"})
            => (mgr'[k] = mgr[k] /\ BindingsOf(k, os') = BindingsOf(k, os))]_vars
    /\ [](\A m \in DOMAIN mgr : DOMAIN mgr[m].handlers \subseteq BoundIds(os))

\* The entries of table after are those of table before, but for identifier id.
SameButFor(before, after, id) ==
    /\ (DOMAIN after) \ {id} = (DOMAIN before) \ {id}
    /\ \A i \in (DOMAIN before) \ {id} : after[i] = before[i]

\* C13: a successful register adds one entry, for the identifier it returns, with
\* the callback and extra keys it was given, and leaves the other entries as they
\* were; a successful unregister(id) removes the entry of id and leaves the others
\* as they were; and no step changes the callback or the extra keys of an entry
\* that stays in the table.
C13_TableFrame ==
    /\ [](\A m \in DOMAIN mgr :
            /\ (IsRegister /\ last.m = m /\ last.result = "Ok") =>
                   /\ last.id \notin DOMAIN last.pre
                   /\ last.id \in DOMAIN mgr[m].handlers
                   /\ mgr[m].handlers[last.id].callback = last.cb
                   /\ mgr[m].handlers[last.id].extra_keys = last.extra
                   /\ SameButFor(last.pre, mgr[m].handlers, last.id)
            /\ (last.op = "unregister" /\ last.m = m /\ last.result = "Ok") =>
                   /\ last.id \notin DOMAIN mgr[m].handlers
                   /\ SameButFor(last.pre, mgr[m].handlers, last.id))
    /\ [][\A m \in DOMAIN mgr :
            \A id \in (DOMAIN mgr[m].handlers) \cap (DOMAIN mgr'[m].handlers) :
                mgr'[m].handlers[id] = mgr[m].handlers[id]]_vars

\* unregister returned Ok on a table of two entries with different callbacks, one
\* of them with extra keys, and the other entry stays.
C13_Witness ==
    /\ last.op = "unregister" /\ last.result = "Ok"
    /\ last.id \in DOMAIN last.pre
    /\ \E i \in DOMAIN mgr[last.m].handlers :
          /\ last.pre[i].callback # last.pre[last.id].callback
          /\ last.pre[i].extra_keys # << >>

\* C15: a poll_event call, whatever it returns, leaves the handler table, the
\* counter and the OS bindings as they were; the registration whose callback it
\* ran is in the table and bound after it.
C15_PollChangesNothing ==
    /\ [][last'.op = "poll_event" => (mgr' = mgr /\ os' = os)]_vars
    /\ [](last.op = "poll_event" =>
            /\ mgr[last.m].handlers = last.pre
            /\ os = last.preOs
            /\ \A i \in 1..Len(last.invoked) :
                   /\ last.invoked[i].id \in DOMAIN mgr[last.m].handlers
                   /\ last.invoked[i].id \in BoundIds(os))

\* poll_event ran a callback while the table held two entries, after the counter
\* had moved from the construction offset.
C15_Witness ==
    /\ last.op = "poll_event" /\ last.result = "Some"
    /\ Cardinality(DOMAIN last.pre) = 2
    /\ mgr[last.m].id_offset # base[last.m]

\* The identifiers a successful register call of m returned and no successful
\* unregister call of m has released.
Held(m) == {r.id : r \in {x \in Range(regs[m]) : x.ok}} \ released[m]

\* C16: with one manager, the identifiers of the handler table are the
\* identifiers the manager registered and has not unregistered, and they are the
\* identifiers bound in the OS: no binding is without its entry.
C16_BindingImpliesTable ==
    \A m \in DOMAIN mgr :
        /\ Held(m) = DOMAIN mgr[m].handlers
        /\ BoundIds(os) = DOMAIN mgr[m].handlers

\* unregister released one of two registrations, and the other is bound.
C16_Witness ==
    /\ last.op = "unregister" /\ last.result = "Ok"
    /\ released[last.m] = {last.id}
    /\ Cardinality(BoundIds(os)) = 1
    /\ Held(last.m) # {}

\* C17 (as claimed): the identifier a successful register call inserts was not a
\* key of the table, and every identifier in the table is at least the
\* construction offset and below the counter.
C17_FreshBelowCounter ==
    \A m \in DOMAIN mgr :
        /\ (IsRegister /\ last.m = m /\ last.result = "Ok") => last.id \notin DOMAIN last.pre
        /\ \A id \in DOMAIN mgr[m].handlers : base[m] <= id /\ id < mgr[m].id_offset

\* Bit k of the unsigned x.
Bit(x, k) == (x \div (2 ^ k)) % 2

\* C18: the arguments a register or register_extrakeys call passes to
\* RegisterHotKey are the identifier it allocated, a mask whose bits are those set
\* in the no-repeat flag or in the flag of one of the caller's modifiers (no
\* modifiers: the no-repeat flag alone; bit 31 is clear), and the code of the key: nothing of
\* extra_keys; and the binding made on success is that request.
C18_RequestMask ==
    IsRegister =>
        /\ Len(last.req) = 3
        /\ last.req[1] = last.id
        /\ last.req[2] \in 0..MaxI32
        /\ \A k \in 0..30 :
               Bit(last.req[2], k) = 1
               <=> \/ Bit(MOD_NOREPEAT, k) = 1
                   \/ \E i \in 1..Len(last.mods) : Bit(to_mod_code(last.mods[i]), k) = 1
        /\ last.req[3] = to_vk_code(last.key)
        /\ last.result = "Ok" =>
               [id |-> last.req[1], fsModifiers |-> last.req[2], vk |-> last.req[3]] \in os

\* register_extrakeys with no modifiers and two extra keys, accepted by the OS.
C18_Witness ==
    /\ last.op = "register_extrakeys" /\ last.result = "Ok"
    /\ last.mods = << >>
    /\ last.extra = <<"A", "B">>
    /\ last.req[2] = MOD_NOREPEAT

\* The word a get_global_keystate call was answered.
Answered == last.keys[last.key]

\* C19: get_global_keystate returns true exactly when bit 15 of the 16-bit word
\* the OS answered is set, that is when the word as a signed value is negative,
\* and false otherwise; it is false for the word with only bit 0 set.
C19_KeystateIsSignBit ==
    last.op = "get_global_keystate" =>
        /\ last.value \in {"true", "false"}
        /\ (last.value = "true") <=> (Bit(Answered % 65536, 15) = 1)
        /\ (last.value = "true") <=> (Answered < 0)
        /\ Answered = KeyToggledWord => last.value = "false"

\* The call answered 0x0001 (pressed since the last query, up now) returned false.
C19_Witness ==
    /\ last.op = "get_global_keystate"
    /\ Answered = KeyToggledWord
    /\ last.value = "false"

====
